---- MODULE Spec2Model ----
(***************************************************************************)
(* The voice-capture session controller of chatbot_advisor.                *)
(*                                                                         *)
(* The repository holds two versions of the hook useVoiceRecording and two *)
(* versions of the component VoiceRecorder that consumes it:               *)
(*   hook "effectHook"   hooks/useVoiceRecording.js: the recognition       *)
(*                       instance is built by the effect that depends on   *)
(*                       isRecording, with retry on 'aborted';             *)
(*   hook "freshHook"    unnamed/part_001: createRecognition builds an     *)
(*                       instance in every startRecording, no retry;       *)
(*   ui "permissionUI"   components/VoiceRecorder.js: requestPermission    *)
(*                       before startRecording, synchronous hand-off;      *)
(*   ui "debouncedUI"    components/ChatInput.js (second VoiceRecorder):   *)
(*                       direct start, hand-off delayed by 100 ms.         *)
(* Init chooses one hook and one ui; they never change afterwards.         *)
(*                                                                         *)
(* React is modelled at the level of committed renders.  A handler runs to *)
(* completion and its state updates are batched into one commit (one       *)
(* state of the model).  The passive effects that the commit makes due run *)
(* in the step Flush, before any other event is handled.  A callback reads *)
(* the state of the render that created it: every closure value that the   *)
(* code reads (isRecording inside the recognition handlers, inside         *)
(* startRecording) is carried explicitly.  Refs are read when used.        *)
(*                                                                         *)
(* The recognition engine is the environment: an instance that was started *)
(* reports onstart, onresult, onerror and onend in any order the Web       *)
(* Speech API allows.  Timers fire in any order.                           *)
(***************************************************************************)
EXTENDS Integers, Sequences, FiniteSets, TLC

\* ------------------------------------------------------------------ bounds
MaxInst == 2        \* recognition instances started and not yet collected
MaxSess == 2        \* accepted startRecording calls
MaxResults == 1     \* results in the result list of one recognition run
MaxDelivered == 2   \* recorded invocations of onTranscript
MaxPending == 2     \* requestPermission promises pending at once
MaxStream == 2      \* results in the result list of one run, in SpecStream
MaxLen == 3         \* tokens of a transcript, in SpecHandOff
MaxSends == 3       \* calls of sendMessage, in SpecApp
MaxUtt == 3         \* utterances created by speak, in SpecTts

VARIABLES
  hook,             \* which useVoiceRecording is in use
  ui,               \* which VoiceRecorder is in use
  isRecording,      \* useState(false)
  isListening,      \* useState(false)
  transcript,       \* useState(''): a sequence of tokens
  error,            \* useState(null): NoError or a message
  isSupported,      \* useState(false), set by the mount effect
  recognitionRef,   \* useRef(null): 0 or an instance
  timeoutRef,       \* useRef(null): 0 or a timer id
  retryCountRef,    \* useRef(0)
  inst,             \* the SpeechRecognition instances that still matter
  silenceTimers,    \* ids of the pending 3000 ms timers
  retryTimers,      \* number of pending 500 ms restart timers
  deliveryTimers,   \* finalTranscript of each pending 100 ms hand-off timer
  pendingPermission,\* toggle clicks awaiting requestPermission
  delivered,        \* history: the arguments of onTranscript, in order
  session,          \* history: number of accepted startRecording calls
  effectDue,        \* the effect on [isRecording] has to run
  message,          \* ChatInput: useState(''), the text of the input area
  sent,             \* history: the arguments of onSendMessage, in order
  messages,         \* App: useState([]), the message list
  isLoading,        \* App: useState(false)
  sessionId,        \* App: useState(null): 0 or the id of the conversation
  appError,         \* App: useState(null), the error of App
  isConnected,      \* App: useState(true)
  healthPending,    \* App: the healthCheck of the mount effect is pending
  requests,         \* App: the sendMessage calls awaiting their response,
                    \*      each with the sessionId and the text of its call
  calls,            \* history: the sessionId passed to each sendMessage call
  firstId,          \* history: the sessionId of the first successful response
  isSpeaking,       \* useTextToSpeech: useState(false)
  ttsSupported,     \* useTextToSpeech: isSupported, set by the mount effect
  ttsError,         \* useTextToSpeech: useState(null), its error
  utterances,       \* the SpeechSynthesisUtterance objects speak has created
  utteranceRef      \* useTextToSpeech: useRef(null): 0 or the last utterance

vars == <<hook, ui, isRecording, isListening, transcript, error, isSupported,
          recognitionRef, timeoutRef, retryCountRef, inst,
          silenceTimers, retryTimers, deliveryTimers, pendingPermission,
          delivered, session, effectDue, message, sent,
          messages, isLoading, sessionId, appError, isConnected,
          healthPending, requests, calls, firstId,
          isSpeaking, ttsSupported, ttsError, utterances, utteranceRef>>

\* ------------------------------------------------------------------ values
NoError == "null"
SP == 0             \* the token of a result that is white space
Hooks == {"effectHook", "freshHook"}
UIs == {"permissionUI", "debouncedUI"}
InstIds == 1..(MaxInst + 1)   \* one more: the effectHook keeps an unstarted one
TimerIds == 1..2
UttIds == 1..MaxUtt

ErrorCodes == {"aborted", "not-allowed", "no-speech"}

\* An instance: st is its place in the engine's life cycle, rec the value of
\* isRecording its handlers closed over, results the result list of its
\* current run, sess the session that called start() on it.
NoInst == [st |-> "none", rec |-> FALSE, results |-> <<>>, sess |-> 0]
\*   new            built, start() not called yet
\*   starting       start() called, onstart not reported yet
\*   running        listening
\*   stoppingEarly  stop() called before onstart was reported
\*   stopping       stop() called while listening: the engine may report
\*                  one more result, for the audio captured so far
\*   closing        nothing but onend is still to come
\*   ended          onend reported; start() may be called again
Active == {"starting", "running", "stoppingEarly", "stopping", "closing"}

\* The state as one record, so that a handler is a function of states.
Cur == [isRecording |-> isRecording, isListening |-> isListening,
        transcript |-> transcript, error |-> error,
        recognitionRef |-> recognitionRef, timeoutRef |-> timeoutRef,
        retryCountRef |-> retryCountRef, inst |-> inst, made |-> 0,
        silenceTimers |-> silenceTimers, retryTimers |-> retryTimers,
        deliveryTimers |-> deliveryTimers,
        pendingPermission |-> pendingPermission, delivered |-> delivered,
        session |-> session, effectDue |-> effectDue,
        message |-> message, sent |-> sent,
        messages |-> messages, isLoading |-> isLoading,
        sessionId |-> sessionId, appError |-> appError,
        isConnected |-> isConnected, healthPending |-> healthPending,
        requests |-> requests, calls |-> calls, firstId |-> firstId,
        isSpeaking |-> isSpeaking, ttsError |-> ttsError,
        utterances |-> utterances, utteranceRef |-> utteranceRef]

\* ------------------------------------------------------------ text helpers
RECURSIVE TrimLeft(_)
TrimLeft(t) == IF t # <<>> /\ Head(t) = SP THEN TrimLeft(Tail(t)) ELSE t

RECURSIVE TrimRight(_)
TrimRight(t) ==
  IF t # <<>> /\ t[Len(t)] = SP THEN TrimRight(SubSeq(t, 1, Len(t) - 1)) ELSE t

\* String.prototype.trim
Trim(t) == TrimRight(TrimLeft(t))

RECURSIVE Concat(_, _)
\* the loop of onresult: the transcripts of the results that are final
\* (final = TRUE) or not final (final = FALSE), concatenated in list order
Concat(results, final) ==
  IF results = <<>> THEN <<>>
  ELSE (IF Head(results).final = final THEN <<Head(results).text>> ELSE <<>>)
       \o Concat(Tail(results), final)

\* ------------------------------------------------------------ error texts
\* the switch of onerror of the effectHook
errorMessageEffect(code) ==
  CASE code = "network" ->
         "Network error. Please check your internet connection and try again."
    [] code = "not-allowed" ->
         "Microphone access denied. Please allow microphone permissions and try again."
    [] code = "no-speech" ->
         "No speech detected. Try speaking louder, getting closer to the microphone, or check your microphone settings."
    [] code = "audio-capture" ->
         "Audio capture failed. Please check your microphone and try again."
    [] code = "service-not-allowed" ->
         "Speech recognition service not allowed. Try using HTTPS or a different browser."
    [] OTHER ->
         "Speech recognition error: " \o code \o ". Try refreshing the page."

\* the switch of onerror of the freshHook
errorMessageFresh(code) ==
  CASE code = "network" ->
         "Network error. Please check your internet connection and try again."
    [] code = "not-allowed" ->
         "Microphone access denied. Please allow microphone permissions and try again."
    [] code = "no-speech" ->
         "No speech detected. Try speaking louder or closer to the microphone."
    [] code = "audio-capture" ->
         "Audio capture failed. Please check your microphone and try again."
    [] OTHER -> "Speech recognition error: " \o code

ErrorMessage(code) ==
  IF hook = "effectHook" THEN errorMessageEffect(code)
  ELSE errorMessageFresh(code)

\* ------------------------------------------------- the recognition engine
\* SpeechRecognition.start() throws InvalidStateError on an instance that is
\* started and has not ended yet.
CanStart(s, i) == s.inst[i].st \in {"new", "ended"}

\* start(): a new run of instance i; its result list starts empty.
EngineStart(s, i) ==
  [s EXCEPT !.inst[i].st = "starting", !.inst[i].results = <<>>,
            !.inst[i].sess = s.session]

\* stop(): the engine stops listening; it may still report what it has
\* heard, and then ends.  On an instance that is not running it does nothing.
EngineStop(s, i) ==
  CASE s.inst[i].st = "starting" -> [s EXCEPT !.inst[i].st = "stoppingEarly"]
    [] s.inst[i].st = "running" -> [s EXCEPT !.inst[i].st = "stopping"]
    [] OTHER -> s

\* new SpeechRecognition(): handlers close over isRecording = rec.  The
\* instance takes the first free slot; made names it (-1: no slot is free,
\* and Commit refuses the step).
FreeSlots(s) == {i \in InstIds : s.inst[i].st = "none"}

NewInstance(s, rec) ==
  IF FreeSlots(s) = {}
  THEN [s EXCEPT !.made = -1]
  ELSE LET n == CHOOSE i \in FreeSlots(s) : \A j \in FreeSlots(s) : i <= j
       IN [s EXCEPT !.made = n,
                    !.inst[n] = [st |-> "new", rec |-> rec,
                                 results |-> <<>>, sess |-> 0]]

\* An instance that no ref holds can report nothing more once it has ended,
\* or when it was never started: it is dropped.
Collect(s) ==
  [s EXCEPT !.inst = [i \in InstIds |->
                        IF i # s.recognitionRef /\ @[i].st \in {"new", "ended"}
                        THEN NoInst ELSE @[i]]]

\* The result lists the engine may report next: a new result after a final
\* one, or the non-final result at the tail revised or made final.  The text
\* of a result is the token of the session that started the run, or SP.
NextResults(x) ==
  LET texts == {x.sess, SP}
      news == {[text |-> t, final |-> f] : t \in texts, f \in BOOLEAN}
      r == x.results
  IN IF r # <<>> /\ ~r[Len(r)].final
     THEN {[r EXCEPT ![Len(r)] = n] : n \in news}
     ELSE IF Len(r) < MaxResults THEN {Append(r, n) : n \in news} ELSE {}

\* ------------------------------------------------------- useVoiceRecording
\* clearTimeout(timeoutRef.current); timeoutRef.current = null
clearSilenceTimer(s) ==
  IF s.timeoutRef # 0
  THEN [s EXCEPT !.silenceTimers = @ \ {s.timeoutRef}, !.timeoutRef = 0]
  ELSE s

\* a slip of stopRecording: the silence timer left pending
stopRecordingEffectKeepsTimer(s) ==
  LET s1 == IF s.recognitionRef # 0 THEN EngineStop(s, s.recognitionRef)
            ELSE s
  IN [s1 EXCEPT !.isRecording = FALSE, !.isListening = FALSE]

\* stopRecording of the effectHook: stop() on the instance recognitionRef
\* holds, which stays in recognitionRef
stopRecordingEffect(s) ==
  LET s1 == IF s.recognitionRef # 0 THEN EngineStop(s, s.recognitionRef)
            ELSE s
  IN clearSilenceTimer([s1 EXCEPT !.isRecording = FALSE,
                                  !.isListening = FALSE])

\* stopRecording of the freshHook: stop() on the instance recognitionRef
\* holds, and recognitionRef becomes null
stopRecordingFresh(s) ==
  LET s1 == IF s.recognitionRef # 0
            THEN [EngineStop(s, s.recognitionRef) EXCEPT !.recognitionRef = 0]
            ELSE s
  IN clearSilenceTimer([s1 EXCEPT !.isRecording = FALSE,
                                  !.isListening = FALSE])

stopRecording(s) ==
  IF hook = "effectHook" THEN stopRecordingEffect(s)
  ELSE stopRecordingFresh(s)

\* startRecording of the effectHook, of a render in which isRecording was
\* closureRec: start() on the instance recognitionRef holds
startRecordingEffect(s, closureRec) ==
  IF ~isSupported
  THEN [s EXCEPT !.error = "Speech recognition is not supported"]
  ELSE IF s.recognitionRef # 0 /\ ~closureRec
  THEN IF CanStart(s, s.recognitionRef)
       THEN EngineStart([s EXCEPT !.transcript = <<>>, !.error = NoError,
                                  !.isRecording = TRUE, !.session = @ + 1],
                        s.recognitionRef)
       ELSE [s EXCEPT !.transcript = <<>>,
                      !.error = "Failed to start voice recording",
                      !.isRecording = FALSE]
  ELSE s

\* a slip of startRecording: the isSupported test left out
startRecordingFreshNoProbe(s, closureRec) ==
  IF ~closureRec
  THEN LET s1 == NewInstance(s, closureRec)
       IN IF s1.made = -1 THEN s1
          ELSE EngineStart([s1 EXCEPT !.recognitionRef = s1.made,
                                      !.transcript = <<>>, !.error = NoError,
                                      !.isRecording = TRUE,
                                      !.session = @ + 1],
                           s1.made)
  ELSE s

\* startRecording of the freshHook, of a render in which isRecording was
\* closureRec: createRecognition of the same render builds the instance
startRecordingFresh(s, closureRec) ==
  IF ~isSupported
  THEN [s EXCEPT !.error = "Speech recognition is not supported"]
  ELSE IF ~closureRec
  THEN LET s1 == NewInstance(s, closureRec)
       IN IF s1.made = -1 THEN s1
          ELSE EngineStart([s1 EXCEPT !.recognitionRef = s1.made,
                                      !.transcript = <<>>, !.error = NoError,
                                      !.isRecording = TRUE,
                                      !.session = @ + 1],
                           s1.made)
  ELSE s

startRecording(s, closureRec) ==
  IF hook = "effectHook" THEN startRecordingEffect(s, closureRec)
  ELSE startRecordingFresh(s, closureRec)

\* a slip of clearTranscript: the result lists of the recognition runs are
\* emptied with the transcript
clearTranscriptDropsResults(s) ==
  [s EXCEPT !.transcript = <<>>, !.error = NoError,
            !.inst = [i \in InstIds |-> [@[i] EXCEPT !.results = <<>>]]]

clearTranscript(s) == [s EXCEPT !.transcript = <<>>, !.error = NoError]

\* recognition.onstart of the effectHook
onstartEffect(s, i) ==
  [s EXCEPT !.isListening = TRUE, !.error = NoError, !.retryCountRef = 0]

\* a slip of onstart: the error left as it was
onstartFreshKeepsError(s, i) == [s EXCEPT !.isListening = TRUE]

\* recognition.onstart of the freshHook
onstartFresh(s, i) == [s EXCEPT !.isListening = TRUE, !.error = NoError]

onstart(s, i) ==
  IF hook = "effectHook" THEN onstartEffect(s, i) ELSE onstartFresh(s, i)

\* the smallest timer id that is neither pending nor held by timeoutRef
NewTimer(s) ==
  CHOOSE t \in TimerIds :
    /\ t \notin s.silenceTimers \cup {s.timeoutRef}
    /\ \A u \in TimerIds :
         u \notin s.silenceTimers \cup {s.timeoutRef} => t <= u

\* a slip of onresult: the non-final parts put before the final ones
onresultInterimFirst(s, i) ==
  LET fullTranscript == Concat(s.inst[i].results, TRUE)
      interimTranscript == Concat(s.inst[i].results, FALSE)
      s1 == [s EXCEPT !.transcript = interimTranscript \o fullTranscript]
  IN IF s.inst[i].rec /\ (fullTranscript # <<>> \/ interimTranscript # <<>>)
     THEN LET s2 == IF s1.timeoutRef # 0
                    THEN [s1 EXCEPT !.silenceTimers = @ \ {s1.timeoutRef}]
                    ELSE s1
              t == NewTimer(s2)
          IN [s2 EXCEPT !.silenceTimers = @ \cup {t}, !.timeoutRef = t]
     ELSE s1

\* recognition.onresult of instance i, for the result list s.inst[i].results
onresult(s, i) ==
  LET fullTranscript == Concat(s.inst[i].results, TRUE)
      interimTranscript == Concat(s.inst[i].results, FALSE)
      s1 == [s EXCEPT !.transcript = fullTranscript \o interimTranscript]
  IN IF s.inst[i].rec /\ (fullTranscript # <<>> \/ interimTranscript # <<>>)
     THEN LET s2 == IF s1.timeoutRef # 0
                    THEN [s1 EXCEPT !.silenceTimers = @ \ {s1.timeoutRef}]
                    ELSE s1
              t == NewTimer(s2)
          IN [s2 EXCEPT !.silenceTimers = @ \cup {t}, !.timeoutRef = t]
     ELSE s1

\* a slip of onerror: the last statement, setIsRecording(false), left out
onerrorEffectKeepsRecording(s, i, code) ==
  IF code = "aborted"
  THEN IF s.inst[i].rec /\ s.retryCountRef < 1
       THEN [s EXCEPT !.isListening = FALSE, !.retryCountRef = @ + 1,
                      !.retryTimers = @ + 1]
       ELSE [s EXCEPT !.isListening = FALSE, !.isRecording = FALSE,
                      !.retryCountRef = 0]
  ELSE [s EXCEPT !.error = errorMessageEffect(code), !.isListening = FALSE]

\* recognition.onerror of the effectHook, of instance i
onerrorEffect(s, i, code) ==
  IF code = "aborted"
  THEN IF s.inst[i].rec /\ s.retryCountRef < 1
       THEN [s EXCEPT !.isListening = FALSE, !.retryCountRef = @ + 1,
                      !.retryTimers = @ + 1]
       ELSE [s EXCEPT !.isListening = FALSE, !.isRecording = FALSE,
                      !.retryCountRef = 0]
  ELSE [s EXCEPT !.error = errorMessageEffect(code), !.isListening = FALSE,
                 !.isRecording = FALSE]

\* a slip of onerror: 'no-speech' returns early as 'aborted' does
onerrorFreshSilent(s, i, code) ==
  IF code \in {"aborted", "no-speech"}
  THEN [s EXCEPT !.isListening = FALSE, !.isRecording = FALSE]
  ELSE [s EXCEPT !.isListening = FALSE, !.isRecording = FALSE,
                 !.error = errorMessageFresh(code)]

\* recognition.onerror of the freshHook, of instance i
onerrorFresh(s, i, code) ==
  IF code = "aborted"
  THEN [s EXCEPT !.isListening = FALSE, !.isRecording = FALSE]
  ELSE [s EXCEPT !.isListening = FALSE, !.isRecording = FALSE,
                 !.error = errorMessageFresh(code)]

onerror(s, i, code) ==
  IF hook = "effectHook" THEN onerrorEffect(s, i, code)
  ELSE onerrorFresh(s, i, code)

\* recognition.onend of instance i
onend(s, i) == [s EXCEPT !.isListening = FALSE]

\* the callback of the 3000 ms timer; it closed over isRecording = TRUE,
\* the value under which onresult armed it
silenceCallback(s) == stopRecording(s)

\* the callback of the 500 ms timer of the 'aborted' branch; it closed over
\* isRecording = TRUE
retryCallback(s) ==
  IF s.recognitionRef # 0
  THEN IF CanStart(s, s.recognitionRef)
       THEN EngineStart(s, s.recognitionRef)
       ELSE [s EXCEPT !.isRecording = FALSE]
  ELSE s

\* the body of the effect on [isRecording]: the cleanup of the previous run
\* clears the timer (and leaves timeoutRef); then a new instance is built
\* and stored in recognitionRef.
hookEffect(s) ==
  LET s1 == IF s.timeoutRef # 0
            THEN [s EXCEPT !.silenceTimers = @ \ {s.timeoutRef}]
            ELSE s
      s2 == NewInstance(Collect([s1 EXCEPT !.recognitionRef = 0]),
                        s1.isRecording)
  IN [s2 EXCEPT !.recognitionRef = s2.made, !.effectDue = FALSE]

\* ------------------------------------------------------------ VoiceRecorder
\* the condition of the hand-off effect
HandOffCond(s) ==
  IF ui = "permissionUI"
  THEN ~s.isRecording /\ Trim(s.transcript) # <<>>
  ELSE ~s.isRecording /\ ~s.isListening /\ Trim(s.transcript) # <<>>

\* a slip of handleVoiceTranscript: the transcript sent at once
handleVoiceTranscriptAutoSend(s, t) ==
  IF t # <<>> THEN [s EXCEPT !.sent = Append(@, t)] ELSE s

\* ChatInput.handleVoiceTranscript: the transcript becomes the text of the
\* input area, for the user to review
handleVoiceTranscript(s, t) ==
  IF t # <<>> THEN [s EXCEPT !.message = t] ELSE s

\* the call onTranscript(t): recorded in delivered, and handled by ChatInput
onTranscript(s, t) ==
  handleVoiceTranscript([s EXCEPT !.delivered = Append(@, t)], t)

\* ChatInput.handleSubmit (Enter or the send button); busy is isLoading or
\* disabled
handleSubmit(s, busy) ==
  IF Trim(s.message) # <<>> /\ ~busy
  THEN [s EXCEPT !.sent = Append(@, Trim(s.message)), !.message = <<>>]
  ELSE s

\* a slip of the hand-off effect: the transcript handed over untrimmed
handOffUntrimmed(s) ==
  IF ~HandOffCond(s) THEN s
  ELSE IF ui = "permissionUI"
  THEN clearTranscript(onTranscript(s, s.transcript))
  ELSE [clearTranscript(s) EXCEPT !.deliveryTimers = Append(@, s.transcript)]

\* the hand-off effect: permissionUI calls onTranscript at once, debouncedUI
\* clears first and calls onTranscript from a 100 ms timer
handOff(s) ==
  IF ~HandOffCond(s) THEN s
  ELSE IF ui = "permissionUI"
  THEN clearTranscript(onTranscript(s, Trim(s.transcript)))
  ELSE [clearTranscript(s) EXCEPT
          !.deliveryTimers = Append(@, Trim(s.transcript))]

\* the callback of the 100 ms timer
deliveryCallback(s) ==
  onTranscript([s EXCEPT !.deliveryTimers = Tail(@)], Head(s.deliveryTimers))

\* ------------------------------------------------------------------ commit
EffectsPending == effectDue \/ HandOffCond(Cur)

\* The commit of the batched updates of one handler: the effect on
\* [isRecording] becomes due when isRecording changed.
Commit(s0) ==
  \E s \in {Collect(s0)} :      \* the handler's result, computed once
  /\ s.made # -1
  /\ Cardinality({i \in InstIds : s.inst[i].st \notin {"none", "new"}})
       <= MaxInst
  /\ s.session <= MaxSess
  /\ Len(s.delivered) <= MaxDelivered
  /\ Len(s.delivered) + Len(s.deliveryTimers) <= MaxDelivered
  /\ isRecording' = s.isRecording
  /\ isListening' = s.isListening
  /\ transcript' = s.transcript
  /\ error' = s.error
  /\ recognitionRef' = s.recognitionRef
  /\ timeoutRef' = s.timeoutRef
  /\ retryCountRef' = s.retryCountRef
  /\ inst' = s.inst
  /\ silenceTimers' = s.silenceTimers
  /\ retryTimers' = s.retryTimers
  /\ deliveryTimers' = s.deliveryTimers
  /\ pendingPermission' = s.pendingPermission
  /\ delivered' = s.delivered
  /\ session' = s.session
  /\ effectDue' = (s.effectDue \/
                   (hook = "effectHook" /\ s.isRecording # isRecording))
  /\ message' = s.message
  /\ sent' = s.sent
  /\ Len(s.calls) <= MaxSends
  /\ messages' = s.messages
  /\ isLoading' = s.isLoading
  /\ sessionId' = s.sessionId
  /\ appError' = s.appError
  /\ isConnected' = s.isConnected
  /\ healthPending' = s.healthPending
  /\ requests' = s.requests
  /\ calls' = s.calls
  /\ firstId' = s.firstId
  /\ isSpeaking' = s.isSpeaking
  /\ ttsError' = s.ttsError
  /\ utterances' = s.utterances
  /\ utteranceRef' = s.utteranceRef
  /\ ttsSupported' = ttsSupported
  /\ UNCHANGED <<hook, ui, isSupported>>

\* -------------------------------------------------------------------- Init
\* The state after the mount effects: isSupported tells whether the window
\* has SpeechRecognition; the effectHook has built its first instance.
\* useTextToSpeech after its mount effect
InitSpeech ==
  /\ isSpeaking = FALSE
  /\ ttsError = IF ttsSupported THEN NoError
                ELSE "Text-to-speech not supported in this browser"
  /\ utterances = [u \in UttIds |-> "none"]
  /\ utteranceRef = 0

\* the recorder, ChatInput and App after their mount effects
InitBase ==
  /\ hook \in Hooks
  /\ ui \in UIs
  /\ isSupported \in BOOLEAN
  /\ isRecording = FALSE
  /\ isListening = FALSE
  /\ transcript = <<>>
  /\ error = IF isSupported THEN NoError
             ELSE "Speech recognition is not supported in this browser"
  /\ recognitionRef = IF isSupported /\ hook = "effectHook" THEN 1 ELSE 0
  /\ inst = [i \in InstIds |->
               IF i = recognitionRef
               THEN [st |-> "new", rec |-> FALSE, results |-> <<>>, sess |-> 0]
               ELSE NoInst]
  /\ timeoutRef = 0
  /\ retryCountRef = 0
  /\ silenceTimers = {}
  /\ retryTimers = 0
  /\ deliveryTimers = <<>>
  /\ pendingPermission = 0
  /\ delivered = <<>>
  /\ session = 0
  /\ effectDue = FALSE
  /\ message = <<>>
  /\ sent = <<>>
  /\ messages = <<>>
  /\ isLoading = FALSE
  /\ sessionId = 0
  /\ appError = NoError
  /\ isConnected = TRUE
  /\ healthPending = TRUE
  /\ requests = <<>>
  /\ calls = <<>>
  /\ firstId = 0

\* The recorder and App are studied in a window that has speech synthesis;
\* InitTts takes both kinds of window.
Init ==
  /\ InitBase
  /\ ttsSupported = TRUE
  /\ InitSpeech

InitTts ==
  /\ InitBase
  /\ ttsSupported \in BOOLEAN
  /\ InitSpeech

\* ----------------------------------------------------------------- actions
\* a caller invokes the startRecording of the current render
StartRecording ==
  /\ ~EffectsPending
  /\ Commit(startRecording(Cur, isRecording))

\* a caller invokes stopRecording
StopRecording ==
  /\ ~EffectsPending
  /\ Commit(stopRecording(Cur))

\* requestPermission: it resolves to true, or getUserMedia rejects
PermissionOutcomes == {"granted", "NotAllowedError"}

PermissionMessage(outcome) ==
  CASE outcome = "unavailable" ->
         "Microphone not available in this browser. Try using Chrome or Edge."
    [] outcome = "NotAllowedError" ->
         "Microphone access denied. Please click the microphone icon in your browser address bar and allow access."
    [] outcome = "NotFoundError" ->
         "No microphone found. Please connect a microphone and try again."
    [] outcome = "NotSupportedError" ->
         "Microphone not supported in this browser. Try using Chrome or Edge."
    [] OTHER ->
         "Error accessing microphone. Please check your browser settings."

\* handleToggleRecording: a click on the microphone button.  permissionUI
\* awaits requestPermission before it starts.
ToggleRecording ==
  /\ ~EffectsPending
  /\ isSupported
  /\ IF ui = "permissionUI"
     THEN IF ~isRecording
          THEN /\ pendingPermission < MaxPending
               /\ Commit([Cur EXCEPT !.pendingPermission = @ + 1])
          ELSE Commit(stopRecording(Cur))
     ELSE IF ~isRecording /\ ~isListening
          THEN Commit(startRecording(Cur, isRecording))
          ELSE Commit(stopRecording(Cur))

\* a slip of handleToggleRecording: startRecording called whatever
\* requestPermission returned
PermissionResolvedUnchecked(outcome) ==
  /\ ~EffectsPending
  /\ pendingPermission > 0
  /\ LET s == [Cur EXCEPT !.pendingPermission = @ - 1]
     IN IF outcome = "granted"
        THEN Commit(startRecording(s, FALSE))
        ELSE Commit(startRecording([s EXCEPT !.error = PermissionMessage(outcome)],
                                   FALSE))

\* requestPermission settles and handleToggleRecording resumes: it calls the
\* startRecording of the render of the click, in which isRecording was false.
PermissionResolved(outcome) ==
  /\ ~EffectsPending
  /\ pendingPermission > 0
  /\ LET s == [Cur EXCEPT !.pendingPermission = @ - 1]
     IN IF outcome = "granted"
        THEN Commit(startRecording(s, FALSE))
        ELSE Commit([s EXCEPT !.error = PermissionMessage(outcome)])

\* the engine reports that instance i listens
OnStart(i) ==
  /\ ~EffectsPending
  /\ inst[i].st \in {"starting", "stoppingEarly"}
  /\ LET st == IF inst[i].st = "starting" THEN "running" ELSE "closing"
     IN Commit(onstart([Cur EXCEPT !.inst[i].st = st], i))

\* the engine reports a result of instance i: the event carries the result
\* list r
OnResult(i) ==
  /\ ~EffectsPending
  /\ inst[i].st \in {"running", "stopping"}
  /\ \E r \in NextResults(inst[i]) :
       LET st == IF inst[i].st = "running" THEN "running" ELSE "closing"
       IN Commit(onresult([Cur EXCEPT !.inst[i].results = r,
                                      !.inst[i].st = st], i))

\* the engine reports an error of instance i; onend follows
OnError(i, code) ==
  /\ ~EffectsPending
  /\ inst[i].st \in {"starting", "running", "stoppingEarly", "stopping"}
  /\ Commit(onerror([Cur EXCEPT !.inst[i].st = "closing",
                                  !.inst[i].results = <<>>], i, code))

\* the engine reports that instance i has ended: after stop(), after an
\* error, or on its own
OnEnd(i) ==
  /\ ~EffectsPending
  /\ inst[i].st \in {"running", "stoppingEarly", "stopping", "closing"}
  /\ Commit(onend([Cur EXCEPT !.inst[i].st = "ended",
                                !.inst[i].results = <<>>], i))

\* the 3000 ms timer t expires
SilenceTimeout(t) ==
  /\ ~EffectsPending
  /\ t \in silenceTimers
  /\ Commit(silenceCallback([Cur EXCEPT !.silenceTimers = @ \ {t}]))

\* a 500 ms restart timer expires
RetryTimeout ==
  /\ ~EffectsPending
  /\ retryTimers > 0
  /\ Commit(retryCallback([Cur EXCEPT !.retryTimers = @ - 1]))

\* the oldest 100 ms hand-off timer expires
DeliveryTimeout ==
  /\ ~EffectsPending
  /\ deliveryTimers # <<>>
  /\ Commit(deliveryCallback(Cur))

\* the passive effects of the last commit: the effect on [isRecording] of
\* the effectHook, then the hand-off effect of VoiceRecorder
Flush ==
  /\ EffectsPending
  /\ Commit(handOff(IF effectDue THEN hookEffect(Cur) ELSE Cur))

Next ==
  \/ StartRecording
  \/ StopRecording
  \/ ToggleRecording
  \/ \E o \in PermissionOutcomes : PermissionResolved(o)
  \/ \E i \in InstIds : OnStart(i)
  \/ \E i \in InstIds : OnResult(i)
  \/ \E i \in InstIds : \E c \in ErrorCodes : OnError(i, c)
  \/ \E i \in InstIds : OnEnd(i)
  \/ \E t \in TimerIds : SilenceTimeout(t)
  \/ RetryTimeout
  \/ DeliveryTimeout
  \/ Flush

Spec == Init /\ [][Next]_vars

\* ------------------------------------------------------------------ claims
\* the sessions whose recognition produced part of the text t
Tokens(t) == {t[k] : k \in DOMAIN t} \ {SP}

\* the instances that were started and have not ended
Started == {i \in InstIds : inst[i].st \in Active}

\* C1: every invocation of onTranscript carries a non-empty trimmed text,
\* and a recording session causes at most one invocation: no two
\* invocations carry text recognized in the same session.
C1_OneDeliveryPerSession ==
  /\ \A k \in DOMAIN delivered : delivered[k] # <<>>
  /\ \A a, b \in DOMAIN delivered :
       a < b => Tokens(delivered[a]) \cap Tokens(delivered[b]) = {}

\* C2: after a stop followed by a start, the text recognized in the old
\* session is not delivered twice, is not shown as the transcript of the new
\* session and is not delivered once the new session has begun.
C2_OldSessionKeptApart ==
  /\ (isRecording /\ \A i \in Started :
                       inst[i].sess < session =>
                         inst[i].st \in {"stoppingEarly", "stopping", "closing"})
       => Tokens(transcript) \subseteq {session}
  /\ \A a, b \in DOMAIN delivered :
       a < b => \A o \in Tokens(delivered[a]) \cap Tokens(delivered[b]) :
                  o = session

\* C3: at most one recognition instance is started and not yet ended.
C3_AtMostOneStarted == Cardinality(Started) <= 1

\* a call of startRecording: of the current render, or of the render of a
\* toggle click whose requestPermission has now resolved
StartCall == StartRecording \/ PermissionResolved("granted")

\* C4: startRecording called while isRecording is true changes nothing and
\* starts no instance.
C4_StartWhileActiveIsNoOp ==
  [][(isRecording /\ StartCall) =>
       UNCHANGED <<isRecording, isListening, transcript, error,
                   recognitionRef, timeoutRef, silenceTimers, inst>>]_vars

\* the recognition run of the current session listens and has reported a
\* result
HeardInSession(i) ==
  /\ inst[i].st = "running"
  /\ inst[i].sess = session
  /\ inst[i].results # <<>>

\* C5: in an active session that has received a result, the silence timer is
\* pending (so that it fires when no further result arrives for 3000 ms).
C5_SilenceTimerArmed ==
  (isRecording /\ \E i \in InstIds : HeardInSession(i)) => silenceTimers # {}

\* the engine reports error c for the recognition run of the session that
\* is active
ErrorInSession(i, c) ==
  /\ isRecording
  /\ inst[i].sess = session
  /\ OnError(i, c)

\* C6: the first 'aborted' of an active session (no retry counted yet)
\* schedules one restart, and an 'aborted' after a retry was counted
\* terminates the session and schedules none.
C6_RetryOnceOnAbort ==
  [][\A i \in InstIds :
       (hook = "effectHook" /\ ErrorInSession(i, "aborted")) =>
         IF retryCountRef = 0
         THEN retryTimers' = retryTimers + 1 /\ isRecording'
         ELSE retryTimers' = retryTimers /\ ~isRecording']_vars

\* C7: when a terminal error ends the session, the segments recognized
\* before the error are not handed to onTranscript.
C7_NoDeliveryAfterError ==
  [][\A i \in InstIds : \A c \in ErrorCodes :
       (ErrorInSession(i, c) /\ ~isRecording') => ~HandOffCond(Cur)']_vars

\* startRecording of the current render would be accepted: it sets
\* isRecording and calls start() on an instance
StartAccepted ==
  LET s == startRecording(Cur, isRecording)
  IN /\ s.isRecording
     /\ \E i \in InstIds : inst[i].st # "starting" /\ s.inst[i].st = "starting"

\* the messages onerror sets
RecognitionMessages == {ErrorMessage(c) : c \in ErrorCodes \ {"aborted"}}

\* C8: a terminal error leaves isListening and isRecording false, and while
\* its message is shown the next startRecording is accepted.
C8_ReadyAfterError ==
  (error \in RecognitionMessages /\ ~EffectsPending) =>
    /\ ~isRecording
    /\ ~isListening
    /\ StartAccepted

\* C9, as claimed: every error except the first 'aborted' of a session (the
\* one met with no retry counted) leaves a non-null error.
C9_ErrorSurfaced ==
  [][\A i \in InstIds : \A c \in ErrorCodes :
       (OnError(i, c) /\ ~(c = "aborted" /\ retryCountRef = 0)) =>
         error' # NoError]_vars

\* C9, amended: an error other than 'aborted' sets error to its message;
\* an 'aborted' error, retried or not, leaves error as it was.
C9_SurfacedUnlessAborted ==
  [][\A i \in InstIds : \A c \in ErrorCodes :
       OnError(i, c) =>
         IF c = "aborted" THEN error' = error
         ELSE error' = ErrorMessage(c)]_vars

\* C9 witness: 'no-speech' was reported and its message is shown
C9_Witness ==
  /\ error = ErrorMessage("no-speech")
  /\ ~isRecording
  /\ \E i \in InstIds : inst[i].st = "closing"

\* C10: 'not-allowed' sets the permission-denied message, leaves isListening
\* and isRecording false, and neither schedules nor attempts a restart.
C10_NotAllowed ==
  [][\A i \in InstIds :
       OnError(i, "not-allowed") =>
         /\ error' = "Microphone access denied. Please allow microphone permissions and try again."
         /\ ~isListening' /\ ~isRecording'
         /\ retryTimers' = retryTimers
         /\ \A j \in InstIds : inst'[j].st = "starting" => inst[j].st = "starting"]_vars

\* C10 witness: 'not-allowed' was reported for the recognition run of the current session
C10_Witness ==
  /\ error = ErrorMessage("not-allowed")
  /\ ~isRecording /\ ~isListening
  /\ \E i \in InstIds : inst[i].st = "closing" /\ inst[i].sess = session

\* C11: without speech recognition support, startRecording sets the
\* unsupported message, leaves isRecording false and builds and starts no
\* recognition instance.
C11_UnsupportedStartRejected ==
  [][(~isSupported /\ StartRecording) =>
       /\ error' = "Speech recognition is not supported"
       /\ ~isRecording'
       /\ inst' = inst /\ recognitionRef' = recognitionRef
       /\ session' = session]_vars

\* C11 witness: startRecording was called without support
C11_Witness ==
  /\ ~isSupported
  /\ error = "Speech recognition is not supported"
  /\ ~isRecording
  /\ \A i \in InstIds : inst[i].st = "none"

\* ---------------------------------------------------- longer result lists
\* The result lists of a run in which the k-th result carries the k-th word
\* of the utterance (the token k): the non-final result at the tail is made
\* final, or a new result follows a final one.
StreamResults(x) ==
  LET r == x.results
  IN IF r # <<>> /\ ~r[Len(r)].final
     THEN {[r EXCEPT ![Len(r)].final = TRUE]}
     ELSE IF Len(r) < MaxStream
          THEN {Append(r, [text |-> Len(r) + 1, final |-> f]) : f \in BOOLEAN}
          ELSE {}

\* the engine reports a result of instance i, with a list of StreamResults
OnResultStream(i) ==
  /\ ~EffectsPending
  /\ inst[i].st \in {"running", "stopping"}
  /\ \E r \in StreamResults(inst[i]) :
       LET st == IF inst[i].st = "running" THEN "running" ELSE "closing"
       IN Commit(onresult([Cur EXCEPT !.inst[i].results = r,
                                      !.inst[i].st = st], i))

\* a caller invokes clearTranscript
ClearTranscript ==
  /\ ~EffectsPending
  /\ Commit(clearTranscript(Cur))

NextStream ==
  \/ StartRecording
  \/ ClearTranscript
  \/ StopRecording
  \/ ToggleRecording
  \/ \E o \in PermissionOutcomes : PermissionResolved(o)
  \/ \E i \in InstIds : OnStart(i)
  \/ \E i \in InstIds : OnResultStream(i)
  \/ \E i \in InstIds : \E c \in ErrorCodes : OnError(i, c)
  \/ \E i \in InstIds : OnEnd(i)
  \/ \E t \in TimerIds : SilenceTimeout(t)
  \/ RetryTimeout
  \/ DeliveryTimeout
  \/ Flush

SpecStream == Init /\ [][NextStream]_vars

\* the texts of a result list, in list order
Texts(r) == [k \in 1..Len(r) |-> r[k].text]

Idle == ~isRecording /\ ~isListening

\* C13: stopRecording leaves isRecording and isListening false and no
\* silence timer pending; called while idle it leaves isRecording,
\* isListening, transcript and error as they were.
C13_StopRecording ==
  [][StopRecording =>
       /\ ~isRecording' /\ ~isListening'
       /\ silenceTimers' = {} /\ timeoutRef' = 0
       /\ Idle => UNCHANGED <<isRecording, isListening, transcript, error>>]_vars

\* C13 witness: stopRecording has stopped a listening run whose onresult had
\* armed the silence timer, and no timer is pending
C13_Witness ==
  /\ Idle
  /\ silenceTimers = {} /\ timeoutRef = 0
  /\ \E i \in InstIds :
       inst[i].st = "stopping" /\ inst[i].rec /\ inst[i].results # <<>>

\* C14: a session stopped before the engine reported anything (stop() was
\* called on the instance while it was starting) stays idle whatever the
\* engine reports for it afterwards, and nothing is delivered.
C14_StoppedBeforeStartStaysIdle ==
  [][\A i \in InstIds :
       (/\ Idle
        /\ inst[i].st = "stoppingEarly"
        /\ \/ OnStart(i)
           \/ OnEnd(i)
           \/ \E c \in ErrorCodes : OnError(i, c))
       => (Idle' /\ delivered' = delivered /\ transcript' = <<>>)]_vars

\* C15: in the state in which onTranscript is called, isRecording and
\* isListening are false and the transcript is empty.
C15_IdleAndClearedAtDelivery ==
  [][delivered' # delivered => (Idle /\ transcript = <<>>)]_vars

\* ------------------------------------------------- the hand-off on its own
\* The transcripts a session may leave behind: up to MaxLen tokens, each a
\* word (the token 1) or white space.
Transcripts ==
  UNION {[1..n -> {1, SP}] : n \in 0..MaxLen}

\* A render in which isRecording is false and a session has left transcript
\* behind; the engine may still be listening.
InitHandOff ==
  /\ hook \in Hooks
  /\ ui \in UIs
  /\ isSupported = TRUE
  /\ isRecording = FALSE
  /\ isListening \in BOOLEAN
  /\ transcript \in Transcripts
  /\ error = NoError
  /\ recognitionRef = IF hook = "effectHook" THEN 1 ELSE 0
  /\ inst = [i \in InstIds |->
               IF i = recognitionRef
               THEN [st |-> "new", rec |-> FALSE, results |-> <<>>, sess |-> 0]
               ELSE NoInst]
  /\ timeoutRef = 0
  /\ retryCountRef = 0
  /\ silenceTimers = {}
  /\ retryTimers = 0
  /\ deliveryTimers = <<>>
  /\ pendingPermission = 0
  /\ delivered = <<>>
  /\ session = 1
  /\ effectDue = FALSE
  /\ message = <<>>
  /\ sent = <<>>
  /\ messages = <<>>
  /\ isLoading = FALSE
  /\ sessionId = 0
  /\ appError = NoError
  /\ isConnected = TRUE
  /\ healthPending = TRUE
  /\ requests = <<>>
  /\ calls = <<>>
  /\ firstId = 0
  /\ ttsSupported = TRUE
  /\ InitSpeech

NextHandOff == Flush \/ DeliveryTimeout

SpecHandOff == InitHandOff /\ [][NextHandOff]_vars

\* t is not empty and neither starts nor ends with white space
Trimmed(t) == t # <<>> /\ Head(t) # SP /\ t[Len(t)] # SP

\* the text the hand-off effect captures in the step from this state
HandedOff == IF ui = "permissionUI" THEN delivered' ELSE deliveryTimers'

\* C16: every text passed to onTranscript is non-empty and has no leading or
\* trailing white space, and it is the trimmed transcript of the render in
\* which the hand-off effect found the session ended.
C16_DeliveredIsTrimmed ==
  [][/\ (Flush /\ HandOffCond(Cur)) =>
          (HandedOff = <<Trim(transcript)>> /\ Trimmed(Trim(transcript)))
     /\ DeliveryTimeout =>
          (delivered' = <<Head(deliveryTimers)>> /\ Trimmed(delivered'[1]))]_vars

\* C16 witness: a text with white space inside was delivered whole, and the
\* transcript is cleared
C16_Witness ==
  /\ delivered = <<<<1, SP, 1>>>>
  /\ transcript = <<>>

\* C17: clearTranscript empties the transcript and the error and leaves the
\* flags, the recognition instances with their result lists, the silence
\* timer and the retry counter as they were; the onresult that follows in a
\* run that had reported results renders the whole list again.
C17_ClearTranscriptFrame ==
  [][/\ ClearTranscript =>
          /\ transcript' = <<>> /\ error' = NoError
          /\ UNCHANGED <<isRecording, isListening, recognitionRef, inst,
                         timeoutRef, silenceTimers, retryCountRef,
                         retryTimers, delivered, deliveryTimers>>
     /\ \A i \in InstIds :
          (transcript = <<>> /\ inst[i].results # <<>> /\ OnResultStream(i))
            => /\ transcript' = Texts(inst'[i].results)
               /\ Len(transcript') >= Len(inst[i].results)]_vars

\* C17 witness: the transcript is empty while a session is recording and its
\* run has reported a result
C17_Witness ==
  /\ isRecording /\ isListening
  /\ transcript = <<>> /\ error = NoError
  /\ \E i \in InstIds :
       /\ inst[i].st = "running" /\ inst[i].sess = session
       /\ inst[i].results # <<>>

\* start() is called on instance i in this step
StartsInstance(i) == inst[i].st # "starting" /\ inst'[i].st = "starting"

\* C18: start() is only ever called on an instance that was never started:
\* not on one that has ended.
C18_NeverRestarted ==
  [][\A i \in InstIds : StartsInstance(i) => inst[i].st # "ended"]_vars

\* no timer is pending, no effect is due and no click awaits its permission:
\* without a user action or a further recognition event nothing will happen
Quiet ==
  /\ silenceTimers = {} /\ retryTimers = 0 /\ deliveryTimers = <<>>
  /\ pendingPermission = 0
  /\ ~EffectsPending

\* the run of the first session listens and its last report was the single
\* final result of the utterance (after any number of non-final revisions)
UtteranceHeard(i) ==
  /\ session = 1
  /\ inst[i].st = "running" /\ inst[i].sess = session
  /\ inst[i].results = <<[text |-> session, final |-> TRUE]>>

\* C19: once the final result of the utterance has been reported, its text
\* reaches onTranscript with no user action: when nothing is pending any
\* more, it has been delivered, exactly once.
C19_UtteranceDelivered ==
  \A i \in InstIds :
    (UtteranceHeard(i) /\ Quiet) => delivered = <<<<session>>>>

\* ------------------------------------------------------------- ChatInput
\* the user submits the form of ChatInput
HandleSubmit(busy) ==
  /\ ~EffectsPending
  /\ Commit(handleSubmit(Cur, busy))

NextChat ==
  \/ Flush
  \/ DeliveryTimeout
  \/ \E busy \in BOOLEAN : HandleSubmit(busy)

\* the hand-off of a transcript to ChatInput, and what the user does then
SpecChat == InitHandOff /\ [][NextChat]_vars

Typed == {<<1>>, <<SP>>, <<SP, 1>>}

\* the session ids the backend may return
ServerIds == {1, 2}

\* the text of a reply of the backend, and of the welcome message
ReplyText == <<2>>
WelcomeText == <<3>>

\* what sendMessage throws: the detail of the error response, or the default
SendFailures == {"detail", "Failed to send message. Please try again."}

\* a slip of handleSendMessage: the session id of every response is stored
sendMessageResolvedTakesLatest(s, id) ==
  LET s1 == [s EXCEPT !.requests = Tail(@),
                      !.firstId = IF @ = 0 THEN id ELSE @]
  IN [s1 EXCEPT !.sessionId = id,
                !.messages = Append(@, [text |-> ReplyText, isUser |-> FALSE]),
                !.isConnected = TRUE,
                !.isLoading = FALSE]

\* App.handleSendMessage up to its await, of a render in which isLoading was
\* closureLoading and sessionId was closureId
handleSendMessage(s, messageText, closureLoading, closureId) ==
  IF Trim(messageText) = <<>> \/ closureLoading THEN s
  ELSE [s EXCEPT !.messages = Append(@, [text |-> messageText, isUser |-> TRUE]),
                 !.isLoading = TRUE,
                 !.appError = NoError,
                 !.requests = Append(@, [sessionId |-> closureId,
                                         message |-> messageText]),
                 !.calls = Append(@, closureId)]

\* App.handleSendMessage after its await, when sendMessage returned a
\* response with session id id: the oldest request holds the sessionId of
\* the render of the call
sendMessageResolved(s, id) ==
  LET closureId == Head(s.requests).sessionId
      s1 == [s EXCEPT !.requests = Tail(@),
                      !.firstId = IF @ = 0 THEN id ELSE @]
      s2 == IF closureId = 0 THEN [s1 EXCEPT !.sessionId = id] ELSE s1
  IN [s2 EXCEPT !.messages = Append(@, [text |-> ReplyText, isUser |-> FALSE]),
                !.isConnected = TRUE,
                !.isLoading = FALSE]

\* App.handleSendMessage after its await, when sendMessage threw
sendMessageRejected(s, msg) ==
  [s EXCEPT !.requests = Tail(@), !.appError = msg, !.isConnected = FALSE,
            !.isLoading = FALSE]

\* the mount effect of App after healthCheck: the welcome message replaces
\* the message list, or the connection error is shown
checkConnection(s, ok) ==
  IF ok
  THEN [s EXCEPT !.healthPending = FALSE, !.isConnected = TRUE,
                 !.messages = <<[text |-> WelcomeText, isUser |-> FALSE]>>]
  ELSE [s EXCEPT !.healthPending = FALSE, !.isConnected = FALSE,
                 !.appError = "Unable to connect to the advisor service. Please check if the backend is running."]

\* ChatInput.handleSubmit with the props App passes: onSendMessage is
\* handleSendMessage, disabled is !isConnected
submitToApp(s) ==
  LET s1 == handleSubmit(s, s.isLoading \/ ~s.isConnected)
  IN IF s1.sent # s.sent
     THEN handleSendMessage(s1, s1.sent[Len(s1.sent)], s.isLoading,
                            s.sessionId)
     ELSE s1

\* the user types t in the input area (it is disabled while loading or
\* disconnected)
TypeMessage(t) ==
  /\ ~isLoading /\ isConnected
  /\ message # t
  /\ Commit([Cur EXCEPT !.message = t])

\* the user submits the form of ChatInput inside App
SubmitMessage ==
  /\ ~EffectsPending
  /\ Commit(submitToApp(Cur))

\* the backend answers the oldest request with session id id
SendResolved(id) ==
  /\ requests # <<>>
  /\ Commit(sendMessageResolved(Cur, id))

\* the oldest request fails
SendRejected(msg) ==
  /\ requests # <<>>
  /\ Commit(sendMessageRejected(Cur, msg))

\* healthCheck settles
HealthChecked(ok) ==
  /\ healthPending
  /\ Commit(checkConnection(Cur, ok))

NextApp ==
  \/ \E t \in Typed : TypeMessage(t)
  \/ SubmitMessage
  \/ \E id \in ServerIds : SendResolved(id)
  \/ \E msg \in SendFailures : SendRejected(msg)
  \/ \E ok \in BOOLEAN : HealthChecked(ok)

\* App with ChatInput: messages typed and sent to the backend
SpecApp == Init /\ [][NextApp]_vars

\* C21: once a send has succeeded, sessionId is the id of the first
\* successful response; it never changes afterwards, and it is the id passed
\* to every later sendMessage.
C21_SessionIdKept ==
  [][/\ firstId # 0 => sessionId = firstId
     /\ sessionId # 0 => sessionId' = sessionId
     /\ (firstId # 0 /\ calls' # calls) =>
          calls' = Append(calls, firstId)]_vars

\* C21 witness: the second response carried another id than the first, and
\* the third call passed the id of the first
C21_Witness ==
  /\ sessionId = 1 /\ firstId = 1
  /\ calls = <<0, 1, 1>>
  /\ requests = <<>>
  /\ Len(messages) >= 5

\* the engine reports a result for the listening run of the session that is
\* active
ResultInSession(i) ==
  /\ isRecording
  /\ inst[i].st = "running"
  /\ inst[i].sess = session
  /\ OnResult(i)

\* C22: every onresult event of an active session, final or not, cancels the
\* pending silence timer and arms a new one, so that exactly one silence
\* timer is pending after it, the one timeoutRef holds; and never more than
\* one is pending.
C22_TimerResetOnEveryResult ==
  [][/\ Cardinality(silenceTimers) <= 1
     /\ \A i \in InstIds :
          ResultInSession(i) =>
            /\ timeoutRef' # 0
            /\ silenceTimers' = {timeoutRef'}
            /\ timeoutRef # 0 => timeoutRef' # timeoutRef]_vars

\* C23: the restart of retry-on-abort calls start() on a recognition
\* instance that was never started, not on the aborted one, and it keeps the
\* transcript of the session.
C23_RetryOnNewInstance ==
  [][RetryTimeout =>
       /\ \A i \in InstIds : StartsInstance(i) => inst[i].st = "new"
       /\ transcript' = transcript]_vars

\* C24: when the 500 ms restart timer fires after stopRecording was called
\* during the delay, start() is called on no instance and the controller
\* stays idle.
C24_NoRestartAfterStop ==
  [][(RetryTimeout /\ ~isRecording) =>
       /\ \A i \in InstIds : ~StartsInstance(i)
       /\ Idle']_vars

\* C25: when start() throws in the restart of retry-on-abort, the session
\* terminates: isRecording and isListening are false afterwards, and no
\* further restart is scheduled.
C25_FailedRetryTerminates ==
  [][(/\ RetryTimeout
      /\ recognitionRef # 0
      /\ ~CanStart(Cur, recognitionRef))
     => /\ ~isRecording' /\ ~isListening'
        /\ retryTimers' = retryTimers - 1
        /\ \A i \in InstIds : ~StartsInstance(i)]_vars

\* C26: the retry counter is 0 or 1, and it is 0 whenever no session is
\* active.
C26_RetryCounter ==
  /\ retryCountRef \in {0, 1}
  /\ ~isRecording => retryCountRef = 0

\* text of session k was handed to onTranscript, or waits in a 100 ms timer
HandedOver(k) ==
  \/ \E d \in DOMAIN delivered : k \in Tokens(delivered[d])
  \/ \E d \in DOMAIN deliveryTimers : k \in Tokens(deliveryTimers[d])

\* C27: a session is terminated once.  A result that arrives right after
\* stopRecording (called by the silence timer or by the caller) leaves no
\* silence timer pending and causes no second hand-off of the session's
\* text; the silence timer that fires right after a stop changes nothing;
\* and stopRecording applied twice gives the state of applying it once.
C27_TerminatedOnce ==
  [][/\ stopRecording(stopRecording(Cur)) = stopRecording(Cur)
     /\ \A t \in TimerIds :
          (Idle /\ SilenceTimeout(t)) =>
            UNCHANGED <<isRecording, isListening, transcript, inst, delivered>>
     /\ \A i \in InstIds :
          (~isRecording /\ inst[i].st = "stopping" /\ OnResult(i)) =>
            /\ silenceTimers' = {}
            /\ HandedOver(inst[i].sess) => ~HandOffCond(Cur)']_vars

\* C28, as claimed: an accepted startRecording leaves the transcript empty
\* and the error null, onstart sets isListening and leaves the error null,
\* and hence the error of a listening session stays null unless an error
\* event is reported (which ends the listening).
C28_NullWhileListening ==
  [][/\ (StartCall /\ session' # session) =>
          (transcript' = <<>> /\ error' = NoError /\ isRecording')
     /\ \A i \in InstIds :
          OnStart(i) => (isListening' /\ error' = NoError)
     /\ (isRecording' /\ isListening' /\ error = NoError) =>
          error' = NoError]_vars

\* C28, amended: an accepted startRecording leaves the transcript empty and
\* the error null, and onstart sets isListening and leaves the error null.
C28_StartClearsError ==
  [][/\ (StartCall /\ session' # session) =>
          (transcript' = <<>> /\ error' = NoError /\ isRecording')
     /\ \A i \in InstIds :
          OnStart(i) => (isListening' /\ error' = NoError)]_vars

\* C28 witness: onstart of the current session's run was reported after an
\* error message had been shown: the session listens with no error
C28_Witness ==
  /\ session = 2
  /\ isRecording /\ isListening /\ error = NoError
  /\ \E i \in InstIds : inst[i].st = "running" /\ inst[i].sess = session

\* C29: when no session is active and none is about to be (no restart is
\* pending), no silence timer is pending: a timer armed in a session does not
\* outlive it, and cannot call stopRecording on a later session.
C29_NoTimerOutlivesSession ==
  (~isRecording /\ ~EffectsPending) => silenceTimers = {}

\* C30: whenever isRecording is true (and the effects of the last commit
\* have run), a recognition instance is starting or running, or a restart is
\* pending: the engine ending on its own does not leave isRecording true with
\* nothing listening.
C30_RecordingHasEngine ==
  (isRecording /\ ~EffectsPending) =>
    \/ \E i \in InstIds : inst[i].st \in {"starting", "running"}
    \/ retryTimers > 0

\* C31: isListening implies isRecording: the hook never reports that the
\* recognition listens while it reports that no session is active.
C31_ListeningImpliesRecording == isListening => isRecording

\* C32: the hand-off effect leaves the error as it was: in particular the
\* message of a terminal recognition error is not reset by the hand-off.
C32_HandOffKeepsError ==
  [][Flush => error' = error]_vars

\* ------------------------------------------------- the permission request
\* every way requestPermission settles: true, no mediaDevices, and the
\* names of the errors getUserMedia rejects with (AbortError: any other)
AllPermissionOutcomes ==
  {"granted", "unavailable", "NotAllowedError", "NotFoundError",
   "NotSupportedError", "AbortError"}

NextPermission ==
  \/ ToggleRecording
  \/ \E o \in AllPermissionOutcomes : PermissionResolved(o)
  \/ \E i \in InstIds : OnStart(i)
  \/ \E i \in InstIds : OnEnd(i)
  \/ Flush

\* the microphone button, with every outcome of requestPermission
SpecPermission == Init /\ [][NextPermission]_vars

\* C33: in VoiceRecorder.js a toggle click while idle only requests the
\* permission; startRecording is called when the request resolves true and
\* only then; when it resolves false no session and no instance is started,
\* isRecording is left as it was and the error is the message of the failure.
C33_StartOnlyWithPermission ==
  [][ui = "permissionUI" =>
       /\ (~isRecording /\ ToggleRecording) =>
            /\ pendingPermission' = pendingPermission + 1
            /\ UNCHANGED <<isRecording, isListening, error, inst, session>>
       /\ session' # session => PermissionResolved("granted")
       /\ \A o \in AllPermissionOutcomes \ {"granted"} :
            PermissionResolved(o) =>
              /\ isRecording' = isRecording
              /\ session' = session
              /\ \A i \in InstIds : ~StartsInstance(i)
              /\ error' = PermissionMessage(o)
              /\ error' # NoError]_vars

\* C33 witness: the click was made while idle, no microphone was found, and
\* nothing was started
C33_Witness ==
  /\ ui = "permissionUI"
  /\ error = "No microphone found. Please connect a microphone and try again."
  /\ ~isRecording /\ session = 0 /\ pendingPermission = 0
  /\ \A i \in InstIds : inst[i].st \in {"none", "new"}

\* ---------------------------------------------------------- testMicrophone
\* how testMicrophone settles: the peak level is below 5, below 15 or at
\* least 15, or getUserMedia rejects
MicTestOutcomes == {"tooLow", "low", "ok", "failed"}

\* a slip of testMicrophone: every level of 5 or more reported as low
testMicrophoneNeverOk(s, outcome) ==
  CASE outcome = "tooLow" ->
         [s EXCEPT !.error = "Microphone levels very low. Check if microphone is working or increase volume."]
    [] outcome = "low" ->
         [s EXCEPT !.error = "Microphone levels are low. Try speaking louder or increase microphone volume in Windows settings."]
    [] outcome = "ok" ->
         [s EXCEPT !.error = "Microphone levels are low. Try speaking louder or increase microphone volume in Windows settings."]
    [] OTHER ->
         [s EXCEPT !.error = "Microphone test failed. Check microphone connection."]

\* testMicrophone, from the end of its 3 seconds of monitoring (or from its
\* catch): the only state it writes is the error
testMicrophone(s, outcome) ==
  CASE outcome = "tooLow" ->
         [s EXCEPT !.error = "Microphone levels very low. Check if microphone is working or increase volume."]
    [] outcome = "low" ->
         [s EXCEPT !.error = "Microphone levels are low. Try speaking louder or increase microphone volume in Windows settings."]
    [] outcome = "ok" -> [s EXCEPT !.error = NoError]
    [] OTHER ->
         [s EXCEPT !.error = "Microphone test failed. Check microphone connection."]

\* a testMicrophone that was called earlier settles
MicTestSettled(outcome) ==
  /\ ~EffectsPending
  /\ Commit(testMicrophone(Cur, outcome))

NextMicTest ==
  \/ ToggleRecording
  \/ PermissionResolved("granted")
  \/ StopRecording
  \/ \E i \in InstIds : OnStart(i)
  \/ \E i \in InstIds : OnResult(i)
  \/ \E i \in InstIds : OnError(i, "no-speech")
  \/ \E i \in InstIds : OnEnd(i)
  \/ \E t \in TimerIds : SilenceTimeout(t)
  \/ DeliveryTimeout
  \/ Flush
  \/ \E o \in MicTestOutcomes : MicTestSettled(o)

\* the session controller with microphone tests settling at any time; the
\* recognition fails with 'no-speech' only
SpecMicTest == Init /\ [][NextMicTest]_vars

\* what testMicrophone must leave alone
SessionState ==
  <<isRecording, isListening, transcript, recognitionRef, inst, timeoutRef,
    silenceTimers, retryCountRef, retryTimers, delivered, deliveryTimers>>

\* C34, as claimed: however testMicrophone settles, it leaves isRecording,
\* isListening, the transcript, the recognition instances and the silence
\* timer as they were, and it does not remove an error that a recognition
\* error has surfaced.
C34_MicTestKeepsRecognitionError ==
  [][\A o \in MicTestOutcomes :
       MicTestSettled(o) =>
         /\ UNCHANGED SessionState
         /\ error \in RecognitionMessages => error' # NoError]_vars

\* C34, amended: however testMicrophone settles, it leaves the session as it
\* was and writes the error: null when the peak level is at least 15
\* (whatever error was shown), and a message of its own otherwise.
C34_MicTestWritesErrorOnly ==
  [][\A o \in MicTestOutcomes :
       MicTestSettled(o) =>
         /\ UNCHANGED SessionState
         /\ o = "ok" => error' = NoError
         /\ o # "ok" => (error' # NoError /\ error' \notin RecognitionMessages)]_vars

\* C34 witness: a test settled with a low level while the session was
\* listening and had heard a result; the session goes on
C34_Witness ==
  /\ error = "Microphone levels are low. Try speaking louder or increase microphone volume in Windows settings."
  /\ isRecording /\ isListening
  /\ \E i \in InstIds : HeardInSession(i)

\* ------------------------------------------ handleSendMessage called at will
\* a caller invokes the handleSendMessage of the current render with text t
CallSendMessage(t) ==
  /\ ~EffectsPending
  /\ Commit(handleSendMessage(Cur, t, isLoading, sessionId))

NextAppCalls ==
  \/ NextApp
  \/ \E t \in Typed : CallSendMessage(t)

\* App, with handleSendMessage also called directly
SpecAppCalls == Init /\ [][NextAppCalls]_vars

\* the message list holds the user's message with text t
InList(list, t) ==
  \E k \in DOMAIN list : list[k].isUser /\ list[k].text = t

\* C35: at most one request is in flight; a call made while isLoading is
\* true or with a blank text sends nothing and appends nothing; and when an
\* accepted call completes, by a response or by a failure, isLoading is false
\* and the user's message is in the message list, before the reply.
C35_OneRequestAndMessageKept ==
  [][/\ Len(requests) <= 1
     /\ \A t \in Typed :
          (CallSendMessage(t) /\ (isLoading \/ Trim(t) = <<>>)) =>
            UNCHANGED <<messages, requests, calls, isLoading>>
     /\ \A id \in ServerIds :
          SendResolved(id) =>
            /\ ~isLoading'
            /\ InList(messages, Head(requests).message)
            /\ messages' = Append(messages, [text |-> ReplyText,
                                             isUser |-> FALSE])
     /\ \A msg \in SendFailures :
          SendRejected(msg) =>
            /\ ~isLoading'
            /\ InList(messages', Head(requests).message)]_vars

\* --------------------------------------------------------- useTextToSpeech
\* An utterance is none (not created), pending (handed to
\* speechSynthesis.speak, not started), speaking (its start event was
\* delivered, it plays), cancelled (speechSynthesis.cancel() removed it; the
\* engine may still deliver its end or error event, or nothing) or ended.
UttErrorCodes == {"interrupted", "synthesis-failed"}

\* speechSynthesis.cancel(): every utterance of the queue is removed
SynthCancel(s) ==
  [s EXCEPT !.utterances =
     [u \in UttIds |-> IF @[u] \in {"pending", "speaking"} THEN "cancelled"
                       ELSE @[u]]]

\* stop of useTextToSpeech
ttsStop(s) ==
  IF ttsSupported THEN [SynthCancel(s) EXCEPT !.isSpeaking = FALSE] ELSE s

\* the utterance speak creates: the first that does not exist yet
NewUtterance(s) ==
  CHOOSE u \in UttIds :
    /\ s.utterances[u] = "none"
    /\ \A v \in UttIds : s.utterances[v] = "none" => u <= v

\* speak of useTextToSpeech; throws: the constructor of the utterance throws
speak(s, throws) ==
  IF ~ttsSupported THEN s
  ELSE LET s1 == ttsStop(s)
       IN IF throws
          THEN [s1 EXCEPT !.ttsError = "Failed to start text-to-speech"]
          ELSE LET u == NewUtterance(s1)
               IN [s1 EXCEPT !.utteranceRef = u, !.utterances[u] = "pending"]

\* utterance.onstart
uttOnstart(s) == [s EXCEPT !.isSpeaking = TRUE, !.ttsError = NoError]

\* utterance.onend
uttOnend(s) == [s EXCEPT !.isSpeaking = FALSE]

\* utterance.onerror
uttOnerror(s, code) ==
  [s EXCEPT !.isSpeaking = FALSE,
            !.ttsError = "Speech synthesis error: " \o code]

\* a caller invokes speak
Speak(throws) ==
  /\ \E u \in UttIds : utterances[u] = "none"
  /\ Commit(speak(Cur, throws))

\* a caller invokes stop
SpeakStop ==
  /\ ~EffectsPending
  /\ Commit(ttsStop(Cur))

\* the engine starts to play utterance u: it is the turn of u when nothing
\* else plays
UttStart(u) ==
  /\ utterances[u] = "pending"
  /\ \A v \in UttIds : utterances[v] # "speaking"
  /\ Commit(uttOnstart([Cur EXCEPT !.utterances[u] = "speaking"]))

\* the engine reports the end of utterance u: it was played to its end, or
\* it was cancelled
UttEnd(u) ==
  /\ utterances[u] \in {"speaking", "cancelled"}
  /\ Commit(uttOnend([Cur EXCEPT !.utterances[u] = "ended"]))

\* the engine reports an error of utterance u
UttError(u, code) ==
  /\ utterances[u] \in {"pending", "speaking", "cancelled"}
  /\ Commit(uttOnerror([Cur EXCEPT !.utterances[u] = "ended"], code))

NextTts ==
  \/ \E throws \in BOOLEAN : Speak(throws)
  \/ SpeakStop
  \/ \E u \in UttIds : UttStart(u)
  \/ \E u \in UttIds : UttEnd(u)
  \/ \E u \in UttIds : \E c \in UttErrorCodes : UttError(u, c)

SpecTts == InitTts /\ [][NextTts]_vars

\* the most recently spoken utterance plays
LatestPlays == utteranceRef # 0 /\ utterances[utteranceRef] = "speaking"

\* C36: speak cancels every ongoing utterance before it starts the new one,
\* and isSpeaking is true exactly while the most recently spoken utterance
\* plays: an end or error event of a cancelled earlier utterance does not
\* turn isSpeaking off.
C36_SpeakingIsLatestPlaying ==
  [][/\ \A throws \in BOOLEAN :
          (ttsSupported /\ Speak(throws)) =>
            \A u \in UttIds :
              utterances[u] \in {"pending", "speaking"} =>
                utterances'[u] = "cancelled"
     /\ isSpeaking' <=> LatestPlays']_vars

====
